---- MODULE Spec2Model ----
(***************************************************************************)
(* Model of lagom's EpisodeRunner (lagom/runner/episode_runner.py) and of  *)
(* the TD3 agent (baselines/ddpg_td3/td3_agent.py).                        *)
(*                                                                         *)
(* Two specifications share the variables:                                 *)
(*   RunnerSpec  one EpisodeRunner.__call__(T), driven either by an agent  *)
(*               that follows the BaseAgent protocol or by the TD3 Agent;  *)
(*   Spec        the life of one TD3 Agent: construction, choose_action,   *)
(*               learn (one action per statement group of the loop body)   *)
(*               and polyak_update_target.                                 *)
(* Network parameters are abstracted to one integer per network; an        *)
(* optimizer step moves the parameter of its own network by an arbitrary   *)
(* amount, noise is an arbitrary integer of a bounded range.  Of an action *)
(* vector one element is followed, of an arbitrary dimension: every        *)
(* element is computed by the same expression.                             *)
(***************************************************************************)
EXTENDS Integers, Sequences, FiniteSets, TLC

\* ---------------------------------------------------------------- bounds
MaxT == 3            \* largest step budget of one EpisodeRunner call
MaxIter == 4         \* largest iteration count T of one learn call
NumEnv == 2          \* parallel environment instances
MaxBound == 1        \* action-space bounds are drawn from -MaxBound..MaxBound
MaxParam == 1        \* network parameters range over 0..MaxParam
MaxNoise == 1        \* Gaussian samples range over -MaxNoise..MaxNoise
MaxDelay == 2        \* agent.policy_delay ranges over 1..MaxDelay
MaxTotal == 4        \* learn calls are started while total_timestep stays within this

ActDim == 2          \* dimensions of the action space
PolyakDen == 2       \* agent.polyak is PolyakNum / PolyakDen

Instances == 1..NumEnv
Dims == 1..ActDim

Min(a, b) == IF a <= b THEN a ELSE b
Max(a, b) == IF a >= b THEN a ELSE b

VARIABLES
  \* ---- EpisodeRunner.__call__
  rpc,          \* position in __call__
  T,            \* the step budget
  t,            \* loop variable
  agentKind,    \* class of self.agent: "BaseAgent" or "TD3"
  obsHasAttr,   \* whether the env's observations carry an .observation field
  obs,          \* local obs
  out_agent,    \* local out_agent (a dict: set of keys and the action)
  raw_action,   \* local raw_action
  D,            \* the BatchEpisode
  envLog,       \* calls received by the environment, in order
  agentLog,     \* calls received by the agent, in order
  \* ---- TD3 Agent
  apc,          \* position of the agent: construction, idle, inside learn
  space,        \* env.action_space: [low, high], one bound per dimension
  config,       \* the configuration keys the agent reads
  max_action,
  actor, actor_target, critic, critic_target,
  total_timestep,
  lv,           \* locals of learn
  ret,          \* value returned (or error raised) by the last agent call
  sumT          \* history: sum of T over the learn calls that returned

rvars == <<rpc, T, t, agentKind, obsHasAttr, obs, out_agent, raw_action, D, envLog, agentLog>>
avars == <<apc, space, config, max_action, actor, actor_target, critic, critic_target,
           total_timestep, lv, ret, sumT>>
vars == <<rpc, T, t, agentKind, obsHasAttr, obs, out_agent, raw_action, D, envLog, agentLog,
          apc, space, config, max_action, actor, actor_target, critic, critic_target,
          total_timestep, lv, ret, sumT>>

None == "None"

\* ------------------------------------------------------------ numpy / torch
\* np.unique(v): the distinct entries of a vector
Unique(v) == {v[d] : d \in DOMAIN v}

\* ndarray.item(): the single entry of a one-element array, ValueError otherwise
ItemOK(S) == Cardinality(S) = 1
Item(S) == CHOOSE x \in S : TRUE

\* np.clip(a, lo, hi) == minimum(maximum(a, lo), hi); torch.clamp likewise
Clip(a, lo, hi) == Min(Max(a, lo), hi)

\* --------------------------------------------------------------- Actor
\* Actor.__init__ without the comparison of the lower with the upper bound
ActorInitErrorHighOnly(sp) ==
  IF Cardinality(Unique(sp.high)) # 1 THEN "AssertionError"
  ELSE IF ~ItemOK(Unique(sp.low)) THEN "ValueError"
  ELSE None

\* Actor.__init__: the two assertions on env.action_space; None when they pass
ActorInitError(sp) ==
  IF Cardinality(Unique(sp.high)) # 1 THEN "AssertionError"
  ELSE IF ~ItemOK(Unique(sp.low)) THEN "ValueError"
  ELSE IF -Item(Unique(sp.low)) # Item(Unique(sp.high)) THEN "AssertionError"
  ELSE None

\* the values tanh can take, as an integer: -1, 0, 1
Tanh == -1..1

\* Actor.forward on one element: max_action * tanh(head)
Forward(ma, th) == ma * th

\* the samples of a normal distribution, cut to a bounded range
Noise == -MaxNoise..MaxNoise

\* --------------------------------------------------------------- Agent
\* the boxes an environment can declare: low[d] <= high[d] in every dimension
Bounds == -MaxBound..MaxBound
Spaces == {sp \in [low : [Dims -> Bounds], high : [Dims -> Bounds]] :
             \A d \in Dims : sp.low[d] <= sp.high[d]}

Params == 0..MaxParam

\* agent.polyak in [0, 1], agent.policy_delay >= 1, agent.target_noise_clip
\* cutting all of the noise or none of it
Configs ==
  [polyak : 0..PolyakDen, policy_delay : 1..MaxDelay, target_noise_clip : {0, MaxNoise}]

\* Agent.choose_action, lines 93 and 96: what stops the call before it returns
ChooseActionError(hasAttr, kwargs) ==
  IF ~hasAttr THEN "AttributeError"
  ELSE IF "mode" \notin kwargs THEN "KeyError"
  ELSE None

\* lines 95-98 without the np.clip of line 98
ChooseActionValueUnclipped(mode, d, th, eps) ==
  IF mode = "train"
  THEN Forward(max_action, th) + eps
  ELSE Forward(max_action, th)

\* Agent.choose_action, lines 95-98: element d of the action, for the tanh
\* output th and the exploration noise eps of that element
ChooseActionValue(mode, d, th, eps) ==
  IF mode = "train"
  THEN Clip(Forward(max_action, th) + eps, space.low[d], space.high[d])
  ELSE Forward(max_action, th)

\* Agent.learn, lines 113-116: one element of next_actions
NextAction(th, e) ==
  Clip(Forward(max_action, th)
         + Clip(e, -config.target_noise_clip, config.target_noise_clip),
       -max_action, max_action)

\* the test of line 127 counting iterations from one
DelayedUpdateFromOne(i, delay) == (i + 1) % delay = 0

\* Agent.learn, line 127: the test that lets iteration i update the actor
DelayedUpdate(i, delay) == i % delay = 0

\* line 140 counting the call instead of its iterations
AddOneTimestep(total, n) == total + 1

\* Agent.learn, line 140: self.total_timestep += T
AddTimesteps(total, n) == total + n

\* lines 144 and 146 with both names bound before the loop
OutErrorNever(bound) == None

\* Agent.learn, lines 144 and 146: reading a name that no loop iteration has
\* bound raises UnboundLocalError; None when both are bound
OutError(bound) ==
  IF "actor_grad_norm" \notin bound \/ "critic_grad_norm" \notin bound
  THEN "UnboundLocalError"
  ELSE None

\* line 88 with the two weights exchanged
PolyakSwapped(pn, target, param) ==
  ((PolyakDen - pn) * target + pn * param) \div PolyakDen

\* one parameter after target_param.data.copy_(p*target + (1 - p)*param)
Polyak(pn, target, param) == (pn * target + (PolyakDen - pn) * param) \div PolyakDen

LearnPCs == {"loop", "sample", "critic", "actor", "polyak", "record", "after_loop", "out"}

\* the locals of learn before the loop: no name of the loop body is bound yet
NoLocals == [T |-> 0, i |-> -1, next_action |-> <<>>, bound |-> {}, ops |-> <<>>]

NoRet == [kind |-> "none"]
Raised(e) == [kind |-> "error", error |-> e]

\* before Agent.__init__ no configuration has been read
NoConfig == [polyak |-> 0, policy_delay |-> 1, target_noise_clip |-> 0]

\* Agent.__init__(config, env) of an agent whose Actor cannot be built
ConstructFail ==
  /\ apc = "new"
  /\ ActorInitError(space) # None
  /\ ret' = Raised(ActorInitError(space))
  /\ apc' = "failed"
  /\ UNCHANGED <<space, config, max_action, actor, actor_target, critic, critic_target,
                 total_timestep, lv, sumT>>
  /\ UNCHANGED rvars

\* Agent.__init__: networks are initialised at random, the targets load the
\* online networks' state, total_timestep is registered as 0
Construct ==
  /\ apc = "new"
  /\ ActorInitError(space) = None
  /\ \E cf \in Configs : config' = cf
  /\ max_action' = space.high[1]
  /\ \E a \in Params, c \in Params :
       /\ actor' = a
       /\ actor_target' = a
       /\ critic' = c
       /\ critic_target' = c
  /\ total_timestep' = 0
  /\ apc' = "idle"
  /\ ret' = NoRet
  /\ UNCHANGED <<space, lv, sumT>>
  /\ UNCHANGED rvars

\* Agent.polyak_update_target
PolyakUpdate ==
  /\ actor_target' = Polyak(config.polyak, actor_target, actor)
  /\ critic_target' = Polyak(config.polyak, critic_target, critic)
  /\ UNCHANGED <<actor, critic>>

\* polyak_update_target called from outside learn
PolyakCall ==
  /\ apc = "idle"
  /\ apc' = "polyak_call"
  /\ ret' = NoRet
  /\ UNCHANGED <<space, config, max_action, actor, actor_target, critic, critic_target,
                 total_timestep, lv, sumT>>
  /\ UNCHANGED rvars

PolyakBody ==
  /\ apc = "polyak_call"
  /\ PolyakUpdate
  /\ apc' = "idle"
  /\ UNCHANGED <<space, config, max_action, total_timestep, lv, ret, sumT>>
  /\ UNCHANGED rvars

\* Agent.choose_action(x, mode=mode) on a TimeStep
ChooseAction ==
  /\ apc = "idle"
  /\ \E mode \in {"train", "eval"}, d \in Dims, th \in Tanh, eps \in Noise :
       ret' = IF ChooseActionError(TRUE, {"mode"}) # None
              THEN Raised(ChooseActionError(TRUE, {"mode"}))
              ELSE [kind |-> "out", keys |-> {"raw_action"}, mode |-> mode, dim |-> d,
                    raw_action |-> ChooseActionValue(mode, d, th, eps)]
  /\ apc' = "return"
  /\ UNCHANGED <<space, config, max_action, actor, actor_target, critic, critic_target,
                 total_timestep, lv, sumT>>
  /\ UNCHANGED rvars

\* ---------------------------------------------------------- Agent.learn
Op(name) == [op |-> name, i |-> lv.i]

\* learn(D, replay=..., T=n): lines 104-106
LearnCall ==
  /\ apc = "idle"
  /\ \E n \in 0..MaxIter :
       /\ total_timestep + n <= MaxTotal
       /\ lv' = [NoLocals EXCEPT !.T = n]
  /\ apc' = "loop"
  /\ ret' = NoRet
  /\ UNCHANGED <<space, config, max_action, actor, actor_target, critic, critic_target,
                 total_timestep, sumT>>
  /\ UNCHANGED rvars

\* for i in range(T): line 107
LearnLoop ==
  /\ apc = "loop"
  /\ IF lv.i + 1 < lv.T
     THEN /\ lv' = [lv EXCEPT !.i = lv.i + 1]
          /\ apc' = "sample"
     ELSE /\ apc' = "after_loop"
          /\ UNCHANGED lv
  /\ UNCHANGED <<space, config, max_action, actor, actor_target, critic, critic_target,
                 total_timestep, ret, sumT>>
  /\ UNCHANGED rvars

\* lines 108-119: sample a batch, evaluate the critic, build the targets
LearnSample ==
  /\ apc = "sample"
  /\ \E th \in Tanh, e \in Noise :
       lv' = [lv EXCEPT !.next_action = <<NextAction(th, e)>>,
                        !.ops = Append(lv.ops, Op("sample"))]
  /\ apc' = "critic"
  /\ UNCHANGED <<space, config, max_action, actor, actor_target, critic, critic_target,
                 total_timestep, ret, sumT>>
  /\ UNCHANGED rvars

\* lines 120-127 with an optimizer that also holds the target critic's
\* parameters
LearnCriticWithTarget ==
  /\ apc = "critic"
  /\ \E c \in Params, ct \in Params : critic' = c /\ critic_target' = ct
  /\ lv' = [lv EXCEPT !.bound = lv.bound \cup {"critic_grad_norm"},
                      !.next_action = <<>>,
                      !.ops = Append(lv.ops, Op("critic"))]
  /\ apc' = IF DelayedUpdate(lv.i, config.policy_delay) THEN "actor" ELSE "record"
  /\ UNCHANGED <<space, config, max_action, actor, actor_target,
                 total_timestep, ret, sumT>>
  /\ UNCHANGED rvars

\* lines 120-127: critic loss on the targets (next_actions is not read after
\* it), clipped gradient, critic optimizer step; then the test
\* i % policy_delay == 0
LearnCritic ==
  /\ apc = "critic"
  /\ \E c \in Params : critic' = c
  /\ lv' = [lv EXCEPT !.bound = lv.bound \cup {"critic_grad_norm"},
                      !.next_action = <<>>,
                      !.ops = Append(lv.ops, Op("critic"))]
  /\ apc' = IF DelayedUpdate(lv.i, config.policy_delay) THEN "actor" ELSE "record"
  /\ UNCHANGED <<space, config, max_action, actor, actor_target, critic_target,
                 total_timestep, ret, sumT>>
  /\ UNCHANGED rvars

\* lines 128-133: actor loss, clipped gradient, actor optimizer step
LearnActor ==
  /\ apc = "actor"
  /\ \E a \in Params : actor' = a
  /\ lv' = [lv EXCEPT !.bound = lv.bound \cup {"actor_grad_norm"},
                      !.ops = Append(lv.ops, Op("actor"))]
  /\ apc' = "polyak"
  /\ UNCHANGED <<space, config, max_action, actor_target, critic, critic_target,
                 total_timestep, ret, sumT>>
  /\ UNCHANGED rvars

\* lines 135-136: self.polyak_update_target()
LearnPolyak ==
  /\ apc = "polyak"
  /\ PolyakUpdate
  /\ lv' = [lv EXCEPT !.ops = Append(lv.ops, Op("polyak"))]
  /\ apc' = "record"
  /\ UNCHANGED <<space, config, max_action, total_timestep, ret, sumT>>
  /\ UNCHANGED rvars

\* lines 137-139: record the iteration's loss and Q values
LearnRecord ==
  /\ apc = "record"
  /\ apc' = "loop"
  /\ UNCHANGED <<space, config, max_action, actor, actor_target, critic, critic_target,
                 total_timestep, lv, ret, sumT>>
  /\ UNCHANGED rvars

\* line 140: self.total_timestep += T
LearnCount ==
  /\ apc = "after_loop"
  /\ total_timestep' = AddTimesteps(total_timestep, lv.T)
  /\ apc' = "out"
  /\ UNCHANGED <<space, config, max_action, actor, actor_target, critic, critic_target,
                 lv, ret, sumT>>
  /\ UNCHANGED rvars

\* lines 142-150: build out; reading a grad-norm name that no iteration
\* bound raises UnboundLocalError
LearnOut ==
  /\ apc = "out"
  /\ IF OutError(lv.bound) # None
     THEN /\ ret' = Raised(OutError(lv.bound))
          /\ UNCHANGED sumT
     ELSE /\ ret' = [kind |-> "learn", T |-> lv.T, ops |-> lv.ops]
          /\ sumT' = sumT + lv.T
  /\ lv' = NoLocals
  /\ apc' = "return"
  /\ UNCHANGED <<space, config, max_action, actor, actor_target, critic, critic_target,
                 total_timestep>>
  /\ UNCHANGED rvars

\* return out (or the error leaves the method): the agent is at rest again
ReturnOut ==
  /\ apc = "return"
  /\ apc' = "idle"
  /\ ret' = NoRet
  /\ UNCHANGED <<space, config, max_action, actor, actor_target, critic, critic_target,
                 total_timestep, lv, sumT>>
  /\ UNCHANGED rvars

AgentInit ==
  /\ apc = "new"
  /\ space \in Spaces
  /\ config = NoConfig
  /\ max_action = 0
  /\ actor = 0 /\ actor_target = 0 /\ critic = 0 /\ critic_target = 0
  /\ total_timestep = 0
  /\ lv = NoLocals
  /\ ret = NoRet
  /\ sumT = 0

Next ==
  \/ ConstructFail
  \/ Construct
  \/ PolyakCall
  \/ PolyakBody
  \/ ChooseAction
  \/ LearnCall
  \/ LearnLoop
  \/ LearnSample
  \/ LearnCritic
  \/ LearnActor
  \/ LearnPolyak
  \/ LearnRecord
  \/ LearnCount
  \/ LearnOut
  \/ ReturnOut

\* -------------------------------------------------------- BatchEpisode
\* BatchEpisode(env_spec): empty lists, no instance completed
BatchEpisode ==
  [observations |-> <<>>, actions |-> <<>>, rewards |-> <<>>, dones |-> <<>>,
   infos |-> <<>>, batch_infos |-> <<>>, completes |-> [n \in Instances |-> FALSE]]

add_observation(d, o) == [d EXCEPT !.observations = Append(@, o)]
add_action(d, a) == [d EXCEPT !.actions = Append(@, a)]
add_reward(d, r) == [d EXCEPT !.rewards = Append(@, r)]
add_done(d, dn) == [d EXCEPT !.dones = Append(@, dn)]
add_info(d, inf) == [d EXCEPT !.infos = Append(@, inf)]
add_batch_info(d, inf) == [d EXCEPT !.batch_infos = Append(@, inf)]
set_completed(d, n) == [d EXCEPT !.completes[n] = TRUE]

\* [D.set_completed(n) for n, d in enumerate(done) if d]; done is the set of
\* instances whose flag is true
SetCompleted(d, done) ==
  [d EXCEPT !.completes =
     [n \in Instances |-> IF n \in done THEN set_completed(d, n).completes[n] ELSE @[n]]]

\* --------------------------------------------------------- EpisodeRunner
\* an action as an agent hands it over: a tensor or plain numbers
ActionVals == 0..1
AgentActions == [tensor : BOOLEAN, val : ActionVals]

\* lines 30-33: a tensor action becomes a list of numpy values
RawAction(action) ==
  IF action.tensor THEN [tensor |-> FALSE, val |-> action.val] ELSE action

\* the test of line 46 as any(D.completes)
AnyCompleted(completes) == \E n \in Instances : completes[n]

\* line 46: all(D.completes)
AllCompleted(completes) == \A n \in Instances : completes[n]

\* a BaseAgent's choose_action: a dict holding the action under 'action'
BaseAgentOut == [kind : {"out"}, keys : {{"action"}}, action : AgentActions]

\* what self.agent.choose_action(obs, info=info) gives the runner
AgentOut ==
  IF agentKind = "TD3"
  THEN IF ChooseActionError(obsHasAttr, {"info"}) # None
       THEN {Raised(ChooseActionError(obsHasAttr, {"info"}))}
       ELSE {[kind |-> "out", keys |-> {"raw_action"}, mode |-> "eval", dim |-> 1,
               raw_action |-> ChooseActionValue("eval", 1, th, 0)] : th \in Tanh}
  ELSE BaseAgentOut

EnvCall(name, arg, done) == [call |-> name, arg |-> arg, done |-> done]
AgentCall(name, arg) == [call |-> name, arg |-> arg]
NoAction == [tensor |-> FALSE, val |-> 0]

\* lines 18-23: new BatchEpisode, env.reset(), first observation, agent.reset
RunReset ==
  /\ rpc = "start"
  /\ obs' = 0
  /\ envLog' = Append(envLog, EnvCall("reset", NoAction, {}))
  /\ D' = add_observation(BatchEpisode, 0)
  /\ agentLog' = Append(agentLog, AgentCall("reset", 0))
  /\ rpc' = "for"
  /\ UNCHANGED <<T, t, agentKind, obsHasAttr, out_agent, raw_action>>
  /\ UNCHANGED avars

\* line 25: for t in range(T)
RunLoop ==
  /\ rpc = "for"
  /\ IF t + 1 < T
     THEN /\ t' = t + 1
          /\ rpc' = "choose"
     ELSE /\ rpc' = "return"
          /\ UNCHANGED t
  /\ UNCHANGED <<T, agentKind, obsHasAttr, obs, out_agent, raw_action, D, envLog, agentLog>>
  /\ UNCHANGED avars

\* lines 26-29: ask the agent, pop 'action' from its answer
RunChoose ==
  /\ rpc = "choose"
  /\ agentLog' = Append(agentLog, AgentCall("choose_action", obs))
  /\ \E out \in AgentOut :
       IF out.kind = "error"
       THEN /\ out_agent' = out
            /\ rpc' = "raised"
       ELSE IF "action" \notin out.keys
       THEN /\ out_agent' = Raised("KeyError")
            /\ rpc' = "raised"
       ELSE /\ out_agent' = out
            /\ rpc' = "act"
  /\ UNCHANGED <<T, t, agentKind, obsHasAttr, obs, raw_action, D, envLog>>
  /\ UNCHANGED avars

\* lines 30-34: raw_action, D.add_action(raw_action)
RunAct ==
  /\ rpc = "act"
  /\ raw_action' = RawAction(out_agent.action)
  /\ D' = add_action(D, RawAction(out_agent.action))
  /\ rpc' = "step"
  /\ UNCHANGED <<T, t, agentKind, obsHasAttr, obs, out_agent, envLog, agentLog>>
  /\ UNCHANGED avars

\* lines 36-44 without D.add_reward(reward)
RunStepNoReward ==
  /\ rpc = "step"
  /\ \E done \in SUBSET Instances :
       /\ envLog' = Append(envLog, EnvCall("step", raw_action, done))
       /\ D' = add_batch_info(
                 SetCompleted(
                   add_info(add_done(add_observation(D, t + 1), done), t + 1),
                   done),
                 out_agent.keys \ {"action"})
  /\ obs' = t + 1
  /\ rpc' = "check"
  /\ UNCHANGED <<T, t, agentKind, obsHasAttr, out_agent, raw_action, agentLog>>
  /\ UNCHANGED avars

\* lines 36-44: env.step(raw_action) and the records of its results; the
\* observation, reward and info of step t+1 are named t+1
RunStep ==
  /\ rpc = "step"
  /\ \E done \in SUBSET Instances :
       /\ envLog' = Append(envLog, EnvCall("step", raw_action, done))
       /\ D' = add_batch_info(
                 SetCompleted(
                   add_info(add_done(add_reward(add_observation(D, t + 1), t + 1), done),
                            t + 1),
                   done),
                 out_agent.keys \ {"action"})
  /\ obs' = t + 1
  /\ rpc' = "check"
  /\ UNCHANGED <<T, t, agentKind, obsHasAttr, out_agent, raw_action, agentLog>>
  /\ UNCHANGED avars

\* lines 46-47: if all(D.completes): break
RunCheck ==
  /\ rpc = "check"
  /\ rpc' = IF AllCompleted(D.completes) THEN "return" ELSE "for"
  /\ UNCHANGED <<T, t, agentKind, obsHasAttr, obs, out_agent, raw_action, D, envLog, agentLog>>
  /\ UNCHANGED avars

\* line 49: return D
RunReturn ==
  /\ rpc = "return"
  /\ rpc' = "returned"
  /\ UNCHANGED <<T, t, agentKind, obsHasAttr, obs, out_agent, raw_action, D, envLog, agentLog>>
  /\ UNCHANGED avars

RunnerInit ==
  /\ rpc = "start"
  /\ T \in 0..MaxT
  /\ t = -1
  /\ agentKind \in {"BaseAgent", "TD3"}
  /\ obsHasAttr \in BOOLEAN
  /\ obs = 0
  /\ out_agent = NoRet
  /\ raw_action = NoAction
  /\ D = BatchEpisode
  /\ envLog = <<>>
  /\ agentLog = <<>>

RunnerNext ==
  \/ RunReset
  \/ RunLoop
  \/ RunChoose
  \/ RunAct
  \/ RunStep
  \/ RunCheck
  \/ RunReturn

\* the runner's variables while only the agent is exercised
RunnerIdle ==
  /\ rpc = "unused" /\ T = 0 /\ t = -1 /\ agentKind = "TD3" /\ obsHasAttr = TRUE
  /\ obs = 0 /\ out_agent = NoRet /\ raw_action = NoAction /\ D = BatchEpisode
  /\ envLog = <<>> /\ agentLog = <<>>

\* the agent the runner holds: a constructed one, at rest
AgentIdle ==
  /\ apc = "idle"
  /\ space = [low |-> [d \in Dims |-> -1], high |-> [d \in Dims |-> 1]]
  /\ config = [polyak |-> 1, policy_delay |-> 1, target_noise_clip |-> 0]
  /\ max_action = 1
  /\ actor = 0 /\ actor_target = 0 /\ critic = 0 /\ critic_target = 0
  /\ total_timestep = 0
  /\ lv = NoLocals
  /\ ret = NoRet
  /\ sumT = 0

Init == AgentInit /\ RunnerIdle

Spec == Init /\ [][Next]_vars

RunnerSpecInit == RunnerInit /\ AgentIdle

RunnerSpec == RunnerSpecInit /\ [][RunnerNext]_vars

\* a call that can take a step does take it
FairRunnerSpec == RunnerSpec /\ WF_vars(RunnerNext)

\* ================================================================ claims
\* ---- helpers over the environment's log
StepCalls == SelectSeq(envLog, LAMBDA c : c.call = "step")
ResetCalls == SelectSeq(envLog, LAMBDA c : c.call = "reset")
AgentResets == SelectSeq(agentLog, LAMBDA c : c.call = "reset")

\* the instances that reported done=True in one of the first j steps
ReportedBy(j) == UNION {StepCalls[x].done : x \in 1..j}

\* the steps after which every instance has reported done at least once
AllReportedAt == {j \in 1..Len(StepCalls) : ReportedBy(j) = Instances}

\* min(T, k), k the first step of AllReportedAt (infinite when there is none)
StepBudget ==
  IF AllReportedAt = {} THEN T
  ELSE Min(T, CHOOSE j \in AllReportedAt : \A x \in AllReportedAt : j <= x)

RunnerDone == rpc \in {"returned", "raised"}

\* C1: a rollout that returns has made exactly min(T, k) env.step calls and
\* its trajectory holds that many actions, k being the first step after
\* which every instance has reported done; the rollout leaves its loop only
\* with the budget used up or every instance reported; and every rollout
\* comes to an end.
C1_StepsAreMinTK ==
  /\ [](rpc = "returned" =>
          /\ Len(StepCalls) = StepBudget
          /\ Len(D.actions) = StepBudget)
  /\ [][(rpc \in {"for", "check"} /\ rpc' = "return") =>
          ((t + 1 >= T) \/ (ReportedBy(Len(StepCalls)) = Instances))]_vars
  /\ <>RunnerDone

\* a rollout of budget 3 that ended after its second step, the instances
\* having reported done in different steps
C1_Witness ==
  /\ rpc = "returned"
  /\ T = 3
  /\ Len(StepCalls) = 2
  /\ StepCalls[1].done # {} /\ StepCalls[1].done # Instances

\* C8: with the TD3 Agent every Step of the runner obtains an action: the
\* rollout never ends in an error raised while asking for the action.
C8_EveryStepObtainsAction == agentKind = "TD3" => rpc # "raised"

IterationBoundary == rpc \in {"for", "return", "returned"}

\* C10: the environment and the agent are each reset exactly once, as the
\* first call they receive; after n completed iterations the trajectory holds
\* the observations 0..n and the actions, rewards, done-flags and infos of
\* the steps 1..n in step order; a completed flag changes only from false to
\* true, in the step whose done-flag for that instance is true.
C10_Bookkeeping ==
  /\ [](rpc # "start" =>
          /\ Len(ResetCalls) = 1 /\ envLog[1].call = "reset"
          /\ Len(AgentResets) = 1 /\ agentLog[1].call = "reset")
  /\ [](IterationBoundary =>
          /\ Len(StepCalls) = t + 1
          /\ D.observations = [j \in 1..(t + 2) |-> j - 1]
          /\ D.actions = [j \in 1..(t + 1) |-> StepCalls[j].arg]
          /\ D.rewards = [j \in 1..(t + 1) |-> j]
          /\ D.dones = [j \in 1..(t + 1) |-> StepCalls[j].done]
          /\ D.infos = [j \in 1..(t + 1) |-> j])
  /\ [][\A n \in Instances :
          D'.completes[n] # D.completes[n] =>
            /\ rpc = "step"
            /\ ~D.completes[n] /\ D'.completes[n]
            /\ n \in D'.dones[Len(D'.dones)]]_vars

\* two iterations completed, an instance marked completed in the first
C10_Witness ==
  /\ rpc = "for"
  /\ t = 1
  /\ D.dones[1] # {}
  /\ \E n \in Instances : D.completes[n] /\ n \notin D.dones[2]

\* ---- helpers over the operations of one learn call
OpsOf(ops, name) == SelectSeq(ops, LAMBDA o : o.op = name)
OpsIn(ops, i) == SelectSeq(ops, LAMBDA o : o.i = i)
Names(ops) == [j \in 1..Len(ops) |-> ops[j].op]
CeilDiv(a, b) == (a + b - 1) \div b

\* C2: a learn call of T >= 1 iterations that returns has stepped the critic
\* optimizer T times and the actor optimizer and the Polyak update
\* ceil(T / policy_delay) times each; an iteration i with i % policy_delay = 0
\* did critic step, actor step, Polyak update in this order, every other
\* iteration the critic step alone.
C2_DelayedUpdates ==
  ret.kind = "learn" =>
    /\ ret.T >= 1
    /\ Len(OpsOf(ret.ops, "critic")) = ret.T
    /\ Len(OpsOf(ret.ops, "actor")) = CeilDiv(ret.T, config.policy_delay)
    /\ Len(OpsOf(ret.ops, "polyak")) = CeilDiv(ret.T, config.policy_delay)
    /\ \A i \in 0..(ret.T - 1) :
         Names(OpsIn(ret.ops, i)) =
           IF i % config.policy_delay = 0
           THEN <<"sample", "critic", "actor", "polyak">>
           ELSE <<"sample", "critic">>

\* learn(T=4) with policy_delay = 2 has returned
C2_Witness ==
  /\ ret.kind = "learn"
  /\ ret.T = 4
  /\ config.policy_delay = 2
  /\ Len(OpsOf(ret.ops, "actor")) = 2

\* C3: outside the statement that adds T, total_timestep is the sum of T over
\* the learn calls that returned (0 before the first), and no step of the
\* agent decreases it.
C3_TotalTimestep ==
  /\ [](apc # "out" => total_timestep = sumT)
  /\ [][total_timestep' >= total_timestep]_vars
  /\ [][total_timestep' # total_timestep => apc = "after_loop"]_vars

\* a second learn call has returned, the counter holding T1 + T2 = 4
C3_Witness ==
  /\ ret.kind = "learn"
  /\ ret.T \in 1..3
  /\ total_timestep = 4

InBounds(a) == -max_action <= a /\ a <= max_action

\* C4: the action element returned by choose_action, in train and in eval
\* mode, and the next-action element fed to the target critic in learn lie
\* within [-max_action, max_action].
C4_ActionsBounded ==
  /\ ret.kind = "out" => InBounds(ret.raw_action)
  /\ lv.next_action # <<>> => InBounds(lv.next_action[1])

\* a train-mode action at the upper bound of a space with max_action = 1
C4_Witness ==
  /\ ret.kind = "out"
  /\ ret.mode = "train"
  /\ max_action = 1
  /\ ret.raw_action = 1

\* C5: after construction a target parameter changes only in a step that
\* runs polyak_update_target: the call of it from outside, or the one of a
\* learn iteration i with i % policy_delay = 0.
C5_TargetsOnlyByPolyak ==
  [][(apc # "new" /\ <<actor_target, critic_target>>' # <<actor_target, critic_target>>) =>
       \/ apc = "polyak_call"
       \/ apc = "polyak" /\ lv.i % config.policy_delay = 0]_vars

\* the end of an iteration without actor update, the critic having moved
\* away from its target and the actor from its own
C5_Witness ==
  /\ apc = "record"
  /\ lv.i % config.policy_delay # 0
  /\ critic # critic_target
  /\ actor # actor_target

PolyakStep == apc \in {"polyak", "polyak_call"}

\* p*target + (1 - p)*source, rounded down to a representable value
IsPolyakOf(new, target, source) ==
  /\ PolyakDen * new <= config.polyak * target + (PolyakDen - config.polyak) * source
  /\ config.polyak * target + (PolyakDen - config.polyak) * source < PolyakDen * (new + 1)

\* C6: polyak_update_target sets both target parameters to
\* p*target + (1 - p)*source and leaves the sources alone; with p = 1 the
\* targets keep their values, with p = 0 they take the sources' values.
C6_PolyakUpdate ==
  [][PolyakStep =>
       /\ actor' = actor /\ critic' = critic
       /\ IsPolyakOf(actor_target', actor_target, actor)
       /\ IsPolyakOf(critic_target', critic_target, critic)
       /\ config.polyak = PolyakDen =>
            actor_target' = actor_target /\ critic_target' = critic_target
       /\ config.polyak = 0 =>
            actor_target' = actor /\ critic_target' = critic]_vars

\* with p = 0, a Polyak update inside learn has just copied sources that had
\* values other than the initial ones
C6_Witness ==
  /\ apc = "record"
  /\ config.polyak = 0
  /\ lv.ops # <<>> /\ lv.ops[Len(lv.ops)].op = "polyak"
  /\ actor_target = actor /\ critic_target = critic
  /\ actor # critic

\* one common upper bound whose negation is the common lower bound
Symmetric(sp) ==
  \E b \in Bounds : \A d \in Dims : sp.high[d] = b /\ sp.low[d] = -b

\* C7: construction aborts exactly when the action space is not symmetric
\* and uniformly bounded, and a constructed agent's max_action is the common
\* bound.
C7_ConstructionChecksSpace ==
  /\ apc = "failed" => ~Symmetric(space) /\ ret.kind = "error"
  /\ apc \notin {"new", "failed"} =>
       /\ Symmetric(space)
       /\ \A d \in Dims : space.high[d] = max_action /\ space.low[d] = -max_action
  /\ apc # "new" /\ ~Symmetric(space) => apc = "failed"

\* construction has aborted on uniform bounds that are not opposite
C7_Witness ==
  /\ apc = "failed"
  /\ Cardinality(Unique(space.high)) = 1
  /\ Cardinality(Unique(space.low)) = 1
  /\ space.low[1] # -space.high[1]

ZeroIterations == apc \in LearnPCs /\ lv.T = 0

\* C9: learn with T = 0 ends in UnboundLocalError; no step of the call
\* samples a batch or runs an update, and none changes total_timestep or a
\* network parameter.
C9_LearnZero ==
  /\ [](ZeroIterations => lv.ops = <<>> /\ lv.bound = {})
  /\ [][ZeroIterations =>
          UNCHANGED <<actor, actor_target, critic, critic_target, total_timestep>>]_vars
  /\ [][ZeroIterations /\ apc = "out" =>
          apc' = "return" /\ ret' = Raised("UnboundLocalError")]_vars

\* a learn call has ended in UnboundLocalError after an earlier one returned
C9_Witness ==
  /\ apc = "return"
  /\ ret = Raised("UnboundLocalError")
  /\ total_timestep > 0

====
